---- MODULE Spec2Model ----
(***************************************************************************)
(* Model of the document viewer of vscode-tiho                             *)
(* (src/views/data-browsing-app/monaco-viewer.tsx): the field limiter      *)
(* sliceDocumentFields, the value truncator truncateLongValues, the        *)
(* pretty-printer formatStringValue / formatJsonWithUnquotedKeys and the   *)
(* folding-range provider provideFoldingRanges.                            *)
(*                                                                         *)
(* Text is a sequence of characters (one-character strings; a JavaScript   *)
(* string is a sequence of UTF-16 code units).  A JavaScript value is a    *)
(* tagged record:                                                          *)
(*   [t |-> "null"]  [t |-> "undefined"]  [t |-> "number", n |-> Int]      *)
(*   [t |-> "boolean", b |-> BOOLEAN]     [t |-> "string", s |-> text]     *)
(*   [t |-> "array", a |-> sequence of values]                             *)
(*   [t |-> "object", e |-> sequence of <<key, value>> in key order]       *)
(***************************************************************************)
EXTENDS Integers, Sequences, FiniteSets, TLC

VARIABLES
  pc,                            \* position of the computation under check
  truncateValues,                \* MonacoViewerProps.truncateValues
  lines, i, stack, ranges,       \* provideFoldingRanges: model lines and locals
  obj, maxFields, sliced,        \* sliceDocumentFields: arguments and result
  docToFormat,                   \* result of truncateLongValues
  str, indent, formatted,        \* formatStringValue / formatJsonWithUnquotedKeys
  formattedDocument,             \* text handed to the editor
  document, showAllFields,       \* MonacoViewer: prop and state
  displayDocument, editorHeight, jsonValue,  \* MonacoViewer: memoized values
  monaco, editorRef,             \* MonacoViewer: useMonaco() is set, editorRef.current is set
  hiddenAreas,                   \* line numbers of the editor model that are hidden
  timers,                        \* pending setTimeout callbacks: the monaco each one captured
  documents, sortOption, itemsPerPage, currentPage, viewType, settingsMenuOpen,
                                 \* PreviewApp: state
  mounted,                       \* PreviewApp: the mount effect has run
  posted,                        \* messages handed to vscode.postMessage, in order
  event                          \* the event handled last

scanVars == <<lines, i, stack, ranges>>
sliceVars == <<obj, maxFields, sliced>>
formatVars == <<truncateValues, docToFormat, str, indent, formatted, formattedDocument>>
viewerVars == <<document, showAllFields, displayDocument, editorHeight, jsonValue,
                monaco, editorRef, hiddenAreas, timers>>
panelVars == <<documents, sortOption, itemsPerPage, currentPage, viewType,
               settingsMenuOpen, mounted, posted>>
vars == <<pc, truncateValues, lines, i, stack, ranges, obj, maxFields, sliced, docToFormat,
          str, indent, formatted, formattedDocument, viewerVars, panelVars, event>>

(***************************************************************************)
(* Characters that need a name.  A backtick cannot be written inside a     *)
(* TLA+ string, so it is represented by a token of its own.                *)
(***************************************************************************)
LF == "\n"
CR == "\r"
TAB == "\t"
BACKSLASH == "\\"
QUOTE == "\""
BACKTICK == "BACKTICK"

\* The value of a variable that the computation under check does not use.
None == [t |-> "none"]

\* The variables of MonacoViewer where no viewer is under check.
ViewerIdle ==
  /\ document = None /\ showAllFields = FALSE /\ displayDocument = None
  /\ editorHeight = 0 /\ jsonValue = None
  /\ monaco = FALSE /\ editorRef = FALSE /\ hiddenAreas = {} /\ timers = <<>>

\* The variables of PreviewApp where no panel is under check.
PanelIdle ==
  /\ documents = <<>> /\ sortOption = "default" /\ itemsPerPage = 25 /\ currentPage = 1
  /\ viewType = "tree" /\ settingsMenuOpen = FALSE /\ mounted = FALSE /\ posted = <<>>
  /\ event = [type |-> "none", data |-> None]

Max(S) == CHOOSE m \in S : \A n \in S : n <= m
Min(S) == CHOOSE m \in S : \A n \in S : m <= n

RECURSIVE SeqsUpTo(_, _)
\* All sequences over S of length at most n.
SeqsUpTo(S, n) ==
  IF n = 0 THEN {<<>>}
  ELSE LET shorter == SeqsUpTo(S, n - 1)
       IN  shorter \cup {Append(q, x) : q \in {r \in shorter : Len(r) = n - 1}, x \in S}

(***************************************************************************)
(* String.prototype.trim and endsWith                                      *)
(***************************************************************************)
isWhiteSpace(c) == c \in {" ", TAB, LF, CR}

RECURSIVE trimStart(_)
trimStart(s) ==
  IF s # <<>> /\ isWhiteSpace(Head(s)) THEN trimStart(Tail(s)) ELSE s

RECURSIVE trimEnd(_)
trimEnd(s) ==
  IF s # <<>> /\ isWhiteSpace(s[Len(s)]) THEN trimEnd(SubSeq(s, 1, Len(s) - 1)) ELSE s

trim(s) == trimEnd(trimStart(s))

endsWith(s, c) == s # <<>> /\ s[Len(s)] = c

(***************************************************************************)
(* JavaScript values                                                       *)
(***************************************************************************)
Null == [t |-> "null"]
Undefined == [t |-> "undefined"]
Num(n) == [t |-> "number", n |-> n]
Bool(b) == [t |-> "boolean", b |-> b]
Str(s) == [t |-> "string", s |-> s]
Arr(a) == [t |-> "array", a |-> a]
Obj(e) == [t |-> "object", e |-> e]

\* Maximum length for string values before truncation
MAX_VALUE_LENGTH == 70

\* Array.prototype.slice(0, end)
sliceFromZero(a, end) ==
  LET n == Len(a)
      stop == IF end < 0 THEN Max({n + end, 0}) ELSE Min({end, n})
  IN  SubSeq(a, 1, stop)

(***************************************************************************)
(* sliceDocumentFields(obj, maxFields).  The result records whether it is  *)
(* the argument itself (return obj) or a new object (Object.fromEntries).  *)
(***************************************************************************)
\* Mutants of sliceDocumentFields: the test is <, so a document with exactly
\* maxFields keys is copied; the slice keeps one entry too many.
sliceDocumentFieldsStrict(o, mf) ==
  IF Len(o.e) < mf
  THEN [fresh |-> FALSE, doc |-> o]
  ELSE [fresh |-> TRUE, doc |-> Obj(sliceFromZero(o.e, mf))]

sliceDocumentFieldsOneMore(o, mf) ==
  IF Len(o.e) <= mf
  THEN [fresh |-> FALSE, doc |-> o]
  ELSE [fresh |-> TRUE, doc |-> Obj(sliceFromZero(o.e, mf + 1))]

sliceDocumentFields(o, mf) ==
  LET entries == o.e
  IN  IF Len(entries) <= mf
      THEN [fresh |-> FALSE, doc |-> o]
      ELSE [fresh |-> TRUE, doc |-> Obj(sliceFromZero(entries, mf))]

(***************************************************************************)
(* truncateLongValues(obj)                                                 *)
(***************************************************************************)
Ellipsis == <<".", ".", ".">>

\* Mutants of truncateString: the test is >=; the cut leaves room for the
\* marker; the marker is left out.
truncateStringAtCap(s) ==
  IF Len(s) >= MAX_VALUE_LENGTH
  THEN SubSeq(s, 1, MAX_VALUE_LENGTH) \o Ellipsis
  ELSE s

truncateStringShort(s) ==
  IF Len(s) > MAX_VALUE_LENGTH
  THEN SubSeq(s, 1, MAX_VALUE_LENGTH - 3) \o Ellipsis
  ELSE s

\* obj.length > MAX_VALUE_LENGTH ? obj.substring(0, MAX_VALUE_LENGTH) + '...' : obj
truncateString(s) ==
  IF Len(s) > MAX_VALUE_LENGTH
  THEN SubSeq(s, 1, MAX_VALUE_LENGTH) \o Ellipsis
  ELSE s

RECURSIVE truncateLongValuesFlat(_)
\* Mutant of truncateLongValues: the elements of an array are not visited.
truncateLongValuesFlat(o) ==
  CASE o.t = "string" -> Str(truncateString(o.s))
    [] o.t = "array" -> o
    [] o.t = "object" ->
         Obj([k \in 1..Len(o.e) |-> <<o.e[k][1], truncateLongValuesFlat(o.e[k][2])>>])
    [] OTHER -> o

RECURSIVE truncateLongValuesDropUndefined(_)
\* Mutant of truncateLongValues: undefined leaves become null (as a JSON
\* round trip would make them).
truncateLongValuesDropUndefined(o) ==
  CASE o.t = "string" -> Str(truncateString(o.s))
    [] o.t = "array" ->
         Arr([k \in 1..Len(o.a) |-> truncateLongValuesDropUndefined(o.a[k])])
    [] o.t = "object" ->
         Obj([k \in 1..Len(o.e) |->
                <<o.e[k][1], truncateLongValuesDropUndefined(o.e[k][2])>>])
    [] o.t = "undefined" -> Null
    [] OTHER -> o

RECURSIVE truncateLongValues(_)
truncateLongValues(o) ==
  CASE o.t = "string" -> Str(truncateString(o.s))
    [] o.t = "array" -> Arr([k \in 1..Len(o.a) |-> truncateLongValues(o.a[k])])
    [] o.t = "object" ->
         Obj([k \in 1..Len(o.e) |-> <<o.e[k][1], truncateLongValues(o.e[k][2])>>])
    [] OTHER -> o

(***************************************************************************)
(* String helpers of the pretty-printer                                    *)
(***************************************************************************)
includes(s, c) == \E k \in 1..Len(s) : s[k] = c

RECURSIVE flatten(_)
\* The concatenation of the pieces, halving the sequence of pieces.
flatten(pieces) ==
  IF pieces = <<>> THEN <<>>
  ELSE IF Len(pieces) = 1 THEN pieces[1]
       ELSE LET h == Len(pieces) \div 2
            IN  flatten(SubSeq(pieces, 1, h)) \o flatten(SubSeq(pieces, h + 1, Len(pieces)))

\* s.replace(/c/g, r) for a one-character pattern c
replaceChar(s, c, r) ==
  flatten([k \in 1..Len(s) |-> IF s[k] = c THEN r ELSE <<s[k]>>])

\* s.replace(/\$\{/g, '\\${'): a backslash goes before every $ that a { follows
replaceDollarBrace(s) ==
  flatten([k \in 1..Len(s) |->
             IF s[k] = "$" /\ k < Len(s) /\ s[k + 1] = "{"
             THEN <<BACKSLASH, "$">>
             ELSE <<s[k]>>])

\* The pieces of s between the separators that end at the positions of ends;
\* a separator that ends at a line feed takes a carriage return before it.
splitAtEnds(s, ends) ==
  LET n == Cardinality(ends)
      \* the position of the j-th end; 0 and Len(s) + 1 bound the text
      at(j) == IF j = 0 THEN 0
               ELSE IF j > n THEN Len(s) + 1
               ELSE CHOOSE k \in ends : Cardinality({m \in ends : m < k}) = j - 1
      last(j) == LET e == at(j)
                 IN  IF e <= Len(s) /\ s[e] = LF /\ e - 1 > at(j - 1) /\ s[e - 1] = CR
                     THEN e - 2
                     ELSE e - 1
  IN  [j \in 1..(n + 1) |-> SubSeq(s, at(j - 1) + 1, last(j))]

\* s.split(/\r?\n/)
splitOnNewline(s) == splitAtEnds(s, {k \in 1..Len(s) : s[k] = LF})

RECURSIVE join(_, _)
\* items.join(sep)
join(items, sep) ==
  IF items = <<>> THEN <<>>
  ELSE IF Len(items) = 1 THEN items[1]
       ELSE items[1] \o sep \o join(Tail(items), sep)

\* ' '.repeat(n)
Spaces(n) == [k \in 1..n |-> " "]

\* Mutant of indentStr: one space per level.
indentStrOneSpace(ind) == Spaces(ind)

\* '  '.repeat(indent)
indentStr(ind) == Spaces(2 * ind)

Digit(d) == <<"0", "1", "2", "3", "4", "5", "6", "7", "8", "9">>[d + 1]

RECURSIVE natToString(_)
natToString(n) == IF n < 10 THEN <<Digit(n)>> ELSE Append(natToString(n \div 10), Digit(n % 10))

\* String(obj) for an integer number
numberToString(n) == IF n < 0 THEN <<"-">> \o natToString(-n) ELSE natToString(n)

\* String(obj) for a boolean
booleanToString(b) ==
  IF b THEN <<"t", "r", "u", "e">> ELSE <<"f", "a", "l", "s", "e">>

(***************************************************************************)
(* formatStringValue(str, indent)                                          *)
(***************************************************************************)
isMultiLine(s) == includes(s, LF) \/ includes(s, CR)

\* Mutant of escapeTemplate: backslashes are not escaped.
escapeTemplateKeepBackslash(s) ==
  replaceDollarBrace(replaceChar(s, BACKTICK, <<BACKSLASH, BACKTICK>>))

\* str.replace(/\\/g, '\\\\').replace(/`/g, '\\`').replace(/\$\{/g, '\\${')
escapeTemplate(s) ==
  replaceDollarBrace(
    replaceChar(replaceChar(s, BACKSLASH, <<BACKSLASH, BACKSLASH>>),
                BACKTICK, <<BACKSLASH, BACKTICK>>))

\* str.replace(/\\/g, '\\\\').replace(/"/g, '\\"').replace(/\t/g, '\\t')
escapeQuoted(s) ==
  replaceChar(
    replaceChar(replaceChar(s, BACKSLASH, <<BACKSLASH, BACKSLASH>>),
                QUOTE, <<BACKSLASH, QUOTE>>),
    TAB, <<BACKSLASH, "t">>)

\* Mutant of continuationIndent: one indentation level more.
continuationIndentNextLevel(ind) == indentStr(ind + 1) \o Spaces(3)

\* '  '.repeat(indent) + '   '
continuationIndent(ind) == indentStr(ind) \o Spaces(3)

formatStringValue(s, ind) ==
  IF isMultiLine(s)
  THEN LET escaped == escapeTemplate(s)
           ls == splitOnNewline(escaped)
           formattedLines ==
             [k \in 1..Len(ls) |->
                IF k = 1 THEN <<BACKTICK>> \o ls[k]
                ELSE continuationIndent(ind) \o ls[k]]
       IN  join(formattedLines, <<LF>>) \o <<BACKTICK>>
  ELSE <<QUOTE>> \o escapeQuoted(s) \o <<QUOTE>>

(***************************************************************************)
(* formatJsonWithUnquotedKeys(obj, indent)                                 *)
(***************************************************************************)
RECURSIVE formatJsonNoEmptyCase(_, _)
\* Mutant of formatJsonWithUnquotedKeys: the tests for an empty array and an
\* empty object are left out.
formatJsonNoEmptyCase(o, ind) ==
  LET nextIndentStr == indentStr(ind + 1)
  IN  CASE o.t = "null" -> <<"n", "u", "l", "l">>
        [] o.t = "undefined" -> <<"u", "n", "d", "e", "f", "i", "n", "e", "d">>
        [] o.t = "number" -> numberToString(o.n)
        [] o.t = "boolean" -> booleanToString(o.b)
        [] o.t = "string" -> formatStringValue(o.s, ind)
        [] o.t = "array" ->
             LET items ==
                   [k \in 1..Len(o.a) |->
                      nextIndentStr \o formatJsonNoEmptyCase(o.a[k], ind + 1)]
             IN  <<"[", LF>> \o join(items, <<",", LF>>) \o <<LF>>
                   \o indentStr(ind) \o <<"]">>
        [] o.t = "object" ->
             LET items ==
                   [k \in 1..Len(o.e) |->
                      nextIndentStr \o o.e[k][1] \o <<":", " ">>
                        \o formatJsonNoEmptyCase(o.e[k][2], ind + 1)]
             IN  <<"{", LF>> \o join(items, <<",", LF>>) \o <<LF>>
                   \o indentStr(ind) \o <<"}">>

RECURSIVE formatJsonWithUnquotedKeys(_, _)
formatJsonWithUnquotedKeys(o, ind) ==
  LET nextIndentStr == indentStr(ind + 1)
  IN  CASE o.t = "null" -> <<"n", "u", "l", "l">>
        [] o.t = "undefined" -> <<"u", "n", "d", "e", "f", "i", "n", "e", "d">>
        [] o.t = "number" -> numberToString(o.n)
        [] o.t = "boolean" -> booleanToString(o.b)
        [] o.t = "string" -> formatStringValue(o.s, ind)
        [] o.t = "array" ->
             IF Len(o.a) = 0 THEN <<"[", "]">>
             ELSE LET items ==
                        [k \in 1..Len(o.a) |->
                           nextIndentStr \o formatJsonWithUnquotedKeys(o.a[k], ind + 1)]
                  IN  <<"[", LF>> \o join(items, <<",", LF>>) \o <<LF>>
                        \o indentStr(ind) \o <<"]">>
        [] o.t = "object" ->
             IF Len(o.e) = 0 THEN <<"{", "}">>
             ELSE LET items ==
                        [k \in 1..Len(o.e) |->
                           nextIndentStr \o o.e[k][1] \o <<":", " ">>
                             \o formatJsonWithUnquotedKeys(o.e[k][2], ind + 1)]
                  IN  <<"{", LF>> \o join(items, <<",", LF>>) \o <<LF>>
                        \o indentStr(ind) \o <<"}">>

\* model.getLinesContent(): the editor model breaks its text at \r\n, \n and \r
getLinesContent(text) ==
  splitAtEnds(text,
              {k \in 1..Len(text) :
                 \/ text[k] = LF
                 \/ text[k] = CR /\ (k = Len(text) \/ text[k + 1] # LF)})

(***************************************************************************)
(* provideFoldingRanges: one iteration of the loop over the lines          *)
(***************************************************************************)
isOpener(trimmed) == endsWith(trimmed, "{") \/ endsWith(trimmed, "[")

openChar(trimmed) == IF endsWith(trimmed, "{") THEN "{" ELSE "["

\* Mutant of isClosingBrace: a closing brace followed by a comma is missed.
isClosingBraceNoComma(trimmed) == trimmed = <<"}">>

isClosingBrace(trimmed) == trimmed = <<"}">> \/ trimmed = <<"}", ",">>

isClosingBracket(trimmed) == trimmed = <<"]">> \/ trimmed = <<"]", ",">>

isCloser(trimmed) == isClosingBrace(trimmed) \/ isClosingBracket(trimmed)

expectedOpen(trimmed) == IF isClosingBrace(trimmed) THEN "{" ELSE "["

\* stack.push({ line: i + 1, char: ... }) when the line ends with an opener
pushOpener(stk, trimmed, lineNumber) ==
  IF isOpener(trimmed)
  THEN Append(stk, [line |-> lineNumber, char |-> openChar(trimmed)])
  ELSE stk

\* Mutants of matchIndex: the search runs from the bottom of the stack; the
\* search ignores the delimiter kind and takes the top entry.
matchIndexFromBottom(stk, open) ==
  LET J == {j \in 1..Len(stk) : stk[j].char = open}
  IN  IF J = {} THEN 0 ELSE Min(J)

matchIndexAnyKind(stk, open) == Len(stk)

\* for (j = stack.length - 1; j >= 0; j--) if (stack[j].char === expectedOpen):
\* the (1-based) position of the entry found, 0 when the loop finds none.
matchIndex(stk, open) ==
  LET J == {j \in 1..Len(stk) : stk[j].char = open}
  IN  IF J = {} THEN 0 ELSE Max(J)

\* Mutant of splice: the top entry is removed (stack.pop()).
splicePop(stk, j) == SubSeq(stk, 1, Len(stk) - 1)

\* stack.splice(j, 1)
splice(stk, j) == SubSeq(stk, 1, j - 1) \o SubSeq(stk, j + 1, Len(stk))

\* Mutants of emitRange: the end is the 0-based index i; the range is put at
\* the front of the array.
emitRangeZeroBased(rs, startLine, endLine) ==
  IF endLine > startLine
  THEN Append(rs, [start |-> startLine, end |-> endLine - 1])
  ELSE rs

emitRangeUnshift(rs, startLine, endLine) ==
  IF endLine > startLine
  THEN <<[start |-> startLine, end |-> endLine]>> \o rs
  ELSE rs

\* if (i + 1 > startLine) ranges.push({ start: startLine, end: i + 1 })
emitRange(rs, startLine, endLine) ==
  IF endLine > startLine
  THEN Append(rs, [start |-> startLine, end |-> endLine])
  ELSE rs

\* The closer branch: the stack and the ranges after a closer line.
closeOn(stk, rs, trimmed, lineNumber) ==
  LET j == IF isCloser(trimmed) THEN matchIndex(stk, expectedOpen(trimmed)) ELSE 0
  IN  IF j = 0
      THEN [stack |-> stk, ranges |-> rs]
      ELSE [stack |-> splice(stk, j),
            ranges |-> emitRange(rs, stk[j].line, lineNumber)]

\* The body of the loop for the line with index i (0-based, line number i + 1).
ScanLine ==
  /\ pc = "scan"
  /\ i < Len(lines)
  /\ LET trimmed == trim(lines[i + 1])
         after == closeOn(pushOpener(stack, trimmed, i + 1), ranges, trimmed, i + 1)
     IN  /\ stack' = after.stack
         /\ ranges' = after.ranges
  /\ i' = i + 1
  /\ UNCHANGED <<pc, lines, sliceVars, formatVars, viewerVars, panelVars, event>>

\* return ranges
ScanReturn ==
  /\ pc = "scan"
  /\ i = Len(lines)
  /\ pc' = "scanned"
  /\ UNCHANGED <<scanVars, sliceVars, formatVars, viewerVars, panelVars, event>>

(***************************************************************************)
(* The folding provider on arbitrary lines                                 *)
(***************************************************************************)
MaxLines == 4

\* Lines the provider is run on: openers and closers of both kinds, with and
\* without indentation, key and trailing comma, and lines that are neither.
FoldLines ==
  { <<"{">>, <<" ", "a", ":", " ", "[">>, <<"}">>, <<" ", "}", ",">>,
    <<"]">>, <<"]", ",">>, <<"a", ":", " ", "[", "]">> }

InitFold ==
  /\ pc = "scan"
  /\ lines \in SeqsUpTo(FoldLines, MaxLines) \ {<<>>}
  /\ i = 0
  /\ stack = <<>>
  /\ ranges = <<>>
  /\ obj = None /\ maxFields = 0 /\ sliced = None
  /\ truncateValues = TRUE
  /\ docToFormat = None /\ str = None /\ indent = 0 /\ formatted = None
  /\ formattedDocument = None
  /\ ViewerIdle /\ PanelIdle

NextFold == ScanLine \/ ScanReturn

SpecFold == InitFold /\ [][NextFold]_vars

(***************************************************************************)
(* Properties of the folding provider on arbitrary lines                   *)
(***************************************************************************)
trimmedLine(k) == trim(lines[k])

rangeKind(r) == openChar(trimmedLine(r.start))

Crossing(r1, r2) == r1.start < r2.start /\ r2.start < r1.end /\ r1.end < r2.end

Within(r1, r2) == r2.start < r1.start /\ r1.end < r2.end

Disjoint(r1, r2) == r1.end < r2.start \/ r2.end < r1.start

RangeIndexes == 1..Len(ranges)

\* C2 as stated: the emitted fold ranges are well-nested, no two of them
\* cross (s1 < s2 < e1 < e2).
C2_Original ==
  \A k1, k2 \in RangeIndexes : ~Crossing(ranges[k1], ranges[k2])

\* C2 as amended: any two emitted fold ranges opened by the same delimiter
\* kind are disjoint or one lies within the other; only a brace range and a
\* bracket range can cross.
C2_Theorem ==
  \A k1, k2 \in RangeIndexes :
    (k1 # k2 /\ rangeKind(ranges[k1]) = rangeKind(ranges[k2])) =>
      \/ Disjoint(ranges[k1], ranges[k2])
      \/ Within(ranges[k1], ranges[k2])
      \/ Within(ranges[k2], ranges[k1])

C2_Witness ==
  /\ pc = "scanned"
  /\ \E k1, k2 \in RangeIndexes :
       /\ rangeKind(ranges[k1]) = rangeKind(ranges[k2])
       /\ Within(ranges[k1], ranges[k2])

\* C3: every emitted fold range (start, end) has 1 <= start < end <= number
\* of lines, start is a line whose trimmed text ends with an opener and end
\* is a line whose trimmed text is a closer of the matching kind.
C3_Theorem ==
  \A k \in RangeIndexes :
    LET r == ranges[k]
    IN  /\ 1 <= r.start /\ r.start < r.end /\ r.end <= Len(lines)
        /\ isOpener(trimmedLine(r.start))
        /\ isCloser(trimmedLine(r.end))
        /\ expectedOpen(trimmedLine(r.end)) = openChar(trimmedLine(r.start))

C3_Witness ==
  /\ pc = "scanned"
  /\ \E k \in RangeIndexes : ranges[k].start > 1 /\ ranges[k].end < Len(lines)
  /\ \E k \in RangeIndexes : rangeKind(ranges[k]) = "["
  /\ \E k \in RangeIndexes : rangeKind(ranges[k]) = "{"

OpenerLines == {k \in 1..Len(lines) : isOpener(trimmedLine(k))}

CloserLines == {k \in 1..Len(lines) : isCloser(trimmedLine(k))}

\* The closer line about to be scanned has no entry of its kind on the stack.
UnmatchedCloserNext ==
  /\ pc = "scan"
  /\ i < Len(lines)
  /\ isCloser(trimmedLine(i + 1))
  /\ \A j \in 1..Len(stack) : stack[j].char # expectedOpen(trimmedLine(i + 1))

C4_Bound ==
  /\ Cardinality(OpenerLines) >= Len(ranges)
  /\ Cardinality(CloserLines) >= Len(ranges)

C4_LeftOver ==
  pc = "scanned" =>
    \A j \in 1..Len(stack) : \A k \in RangeIndexes : ranges[k].start # stack[j].line

C4_Total == pc = "scan" => ENABLED (ScanLine \/ ScanReturn)

\* C4: a closer line with no entry of the expected open character on the
\* stack emits no range and leaves the stack unchanged; an opener still on
\* the stack at the end of the input is the start of no range; the scan
\* always has a next step until it returns; and there are never more ranges
\* than opener lines or closer lines.
C4_Theorem ==
  /\ [](C4_Bound /\ C4_LeftOver /\ C4_Total)
  /\ [][UnmatchedCloserNext => (ranges' = ranges /\ stack' = stack)]_vars

C4_Witness ==
  /\ pc = "scanned"
  /\ stack # <<>>
  /\ ranges # <<>>
  /\ \E k \in CloserLines : \A n \in RangeIndexes : ranges[n].end # k

\* C5: the ranges are returned in the order their closer lines were met: the
\* end lines of the returned sequence are strictly increasing (so no closer
\* line ends two ranges).
C5_Theorem ==
  \A k1, k2 \in RangeIndexes : k1 < k2 => ranges[k1].end < ranges[k2].end

C5_Witness ==
  /\ pc = "scanned"
  /\ Len(ranges) >= 2
  /\ ranges[1].start > ranges[2].start

(***************************************************************************)
(* Input values                                                            *)
(***************************************************************************)
MaxDepth == 2
MaxElems == 2
MaxIndent == 1
MaxKeys == 3
MaxFieldsArg == 4
MaxStrLen == 4

KeyNames == << <<"a">>, <<"b">>, <<"d">>, <<"c">> >>

\* The keys of an object with k entries, in either order of KeyNames.
KeyOrders(k) ==
  { [p \in 1..k |-> KeyNames[p]], [p \in 1..k |-> KeyNames[Len(KeyNames) + 1 - p]] }

\* The keys of the objects of Values: the first k names for an even k, the
\* last k names from the end for an odd k.
KeysOf(k) ==
  IF k % 2 = 0 THEN [p \in 1..k |-> KeyNames[p]]
  ELSE [p \in 1..k |-> KeyNames[Len(KeyNames) + 1 - p]]

\* A string of n characters that differ from position to position.
LongString(n) == [k \in 1..n |-> Digit(k % 10)]

StringLeaves ==
  { <<>>, <<"x">>, <<"x", LF, "y">>, <<"x", "{", LF, "y">>,
    <<"x", LF, "}", LF, "y">>, <<"x", LF, "]", ",", LF, "y">>,
    <<"a", CR, "b">>, <<"a", CR, LF, " ", "b">>,
    LongString(MAX_VALUE_LENGTH), LongString(MAX_VALUE_LENGTH + 1) }

Leaves == {Null, Undefined, Num(1), Num(-12), Bool(TRUE)} \cup {Str(s) : s \in StringLeaves}

\* k elements: v at position p, the number 1 everywhere else.
ElemsWith(k, p, v) == [q \in 1..k |-> IF q = p THEN v ELSE Num(1)]

\* The empty array and object, and for every v of V and every size up to
\* MaxElems the array that starts with v and the object that ends with v.
ContainersOver(V) ==
  {Arr(<<>>), Obj(<<>>)}
    \cup {Arr(ElemsWith(k, 1, v)) : k \in 1..MaxElems, v \in V}
    \cup {Obj([q \in 1..k |-> <<KeysOf(k)[q], ElemsWith(k, k, v)[q]>>])
            : k \in 1..MaxElems, v \in V}

RECURSIVE ValuesAt(_)
\* Values nested at most d containers deep.
ValuesAt(d) ==
  IF d = 0 THEN Leaves
  ELSE LET V == ValuesAt(d - 1) IN V \cup ContainersOver(V)

\* Documents with several empty containers, as fields and as elements.
EmptyContainerDocuments ==
  { Obj(<< <<KeyNames[1], Arr(<<>>)>>, <<KeyNames[2], Obj(<<>>)>> >>),
    Arr(<< Obj(<<>>), Arr(<<>>) >>),
    Obj(<< <<KeyNames[1],
             Obj(<< <<KeyNames[4], Obj(<<>>)>>, <<KeyNames[3], Arr(<<>>)>>,
                    <<KeyNames[2], Num(1)>> >>)>> >>) }

Values == ValuesAt(MaxDepth) \cup EmptyContainerDocuments

(***************************************************************************)
(* The rendering pipeline of MonacoViewer: truncate, format, hand the text *)
(* to the editor, whose model the folding provider scans.                  *)
(***************************************************************************)
Init ==
  /\ pc = "start"
  /\ obj \in Values
  /\ indent \in 0..MaxIndent
  /\ truncateValues \in BOOLEAN
  /\ docToFormat = None
  /\ formattedDocument = None
  /\ lines = <<>> /\ i = 0 /\ stack = <<>> /\ ranges = <<>>
  /\ maxFields = 0 /\ sliced = None
  /\ str = None /\ formatted = None
  /\ ViewerIdle /\ PanelIdle

\* formattedDocument = useMemo(...)
Render ==
  /\ pc = "start"
  /\ docToFormat' = IF truncateValues THEN truncateLongValues(obj) ELSE obj
  /\ formattedDocument' = formatJsonWithUnquotedKeys(docToFormat', indent)
  /\ pc' = "rendered"
  /\ UNCHANGED <<truncateValues, obj, indent, scanVars, maxFields, sliced, str, formatted,
                 viewerVars, panelVars, event>>

\* <Editor value={jsonValue}>: the editor model takes the text and the
\* folding provider is called on it.
SetModel ==
  /\ pc = "rendered"
  /\ lines' = getLinesContent(formattedDocument)
  /\ i' = 0
  /\ stack' = <<>>
  /\ ranges' = <<>>
  /\ pc' = "scan"
  /\ UNCHANGED <<sliceVars, formatVars, viewerVars, panelVars, event>>

Next == Render \/ SetModel \/ ScanLine \/ ScanReturn

Spec == Init /\ [][Next]_vars

(***************************************************************************)
(* sliceDocumentFields on arbitrary documents and caps                     *)
(***************************************************************************)
SliceDocs ==
  {Obj(<<>>)} \cup
  UNION {{Obj([q \in 1..k |-> <<keys[q], vals[q]>>]) :
            keys \in KeyOrders(k), vals \in [1..k -> {Num(1), Null}]} : k \in 1..MaxKeys}

InitSlice ==
  /\ pc = "slice"
  /\ obj \in SliceDocs
  /\ maxFields \in 0..MaxFieldsArg
  /\ sliced = None
  /\ truncateValues = TRUE
  /\ docToFormat = None /\ formattedDocument = None
  /\ lines = <<>> /\ i = 0 /\ stack = <<>> /\ ranges = <<>>
  /\ indent = 0 /\ str = None /\ formatted = None
  /\ ViewerIdle /\ PanelIdle

CallSlice ==
  /\ pc = "slice"
  /\ sliced' = sliceDocumentFields(obj, maxFields)
  /\ pc' = "sliced"
  /\ UNCHANGED <<obj, maxFields, scanVars, formatVars, viewerVars, panelVars, event>>

NextSlice == CallSlice

SpecSlice == InitSlice /\ [][NextSlice]_vars

(***************************************************************************)
(* The pretty-printer on arbitrary strings                                 *)
(***************************************************************************)
StringChars == {"a", " ", LF, CR, BACKTICK, BACKSLASH, "$", "{"}

InitString ==
  /\ pc = "string"
  /\ str \in SeqsUpTo(StringChars, MaxStrLen)
  /\ indent \in 0..MaxIndent
  /\ formatted = None
  /\ truncateValues = TRUE
  /\ docToFormat = None /\ formattedDocument = None
  /\ lines = <<>> /\ i = 0 /\ stack = <<>> /\ ranges = <<>>
  /\ obj = None /\ maxFields = 0 /\ sliced = None
  /\ ViewerIdle /\ PanelIdle

\* formatJsonWithUnquotedKeys(str, indent), which returns formatStringValue(str, indent)
FormatString ==
  /\ pc = "string"
  /\ formatted' = formatJsonWithUnquotedKeys(Str(str), indent)
  /\ pc' = "stringFormatted"
  /\ UNCHANGED <<str, indent, truncateValues, docToFormat, formattedDocument,
                 scanVars, sliceVars, viewerVars, panelVars, event>>

NextString == FormatString

SpecString == InitString /\ [][NextString]_vars

(***************************************************************************)
(* Properties of sliceDocumentFields                                       *)
(***************************************************************************)
\* C6: with at most maxFields keys the result is the document itself; with
\* more, the result is a new document of exactly maxFields keys, the first
\* maxFields entries of the document in its key order with their values; the
\* document is not modified.
C6_Theorem ==
  /\ [](pc = "sliced" =>
          /\ Len(obj.e) <= maxFields => (~sliced.fresh /\ sliced.doc = obj)
          /\ Len(obj.e) > maxFields =>
               /\ sliced.doc.t = "object"
               /\ Len(sliced.doc.e) = maxFields
               /\ \A k \in 1..maxFields : sliced.doc.e[k] = obj.e[k])
  /\ [][obj' = obj]_vars

C6_Witness ==
  /\ pc = "sliced"
  /\ sliced.fresh
  /\ maxFields >= 2
  /\ Len(obj.e) > maxFields
  /\ obj.e[1][1] # KeyNames[1]

(***************************************************************************)
(* Properties of truncateLongValues                                        *)
(***************************************************************************)
RECURSIVE StringLeavesTruncated(_, _)
\* Every string leaf of a is, at the same place of b, cut to the cap.
StringLeavesTruncated(a, b) ==
  CASE a.t = "string" ->
         /\ b.t = "string"
         /\ Len(a.s) > MAX_VALUE_LENGTH =>
              /\ Len(b.s) = MAX_VALUE_LENGTH + 3
              /\ \A k \in 1..MAX_VALUE_LENGTH : b.s[k] = a.s[k]
              /\ \A k \in 1..3 : b.s[MAX_VALUE_LENGTH + k] = "."
         /\ Len(a.s) <= MAX_VALUE_LENGTH => b.s = a.s
    [] a.t = "array" ->
         b.t = "array" /\
         \A k \in 1..Len(a.a) : k <= Len(b.a) /\ StringLeavesTruncated(a.a[k], b.a[k])
    [] a.t = "object" ->
         b.t = "object" /\
         \A k \in 1..Len(a.e) : k <= Len(b.e) /\ StringLeavesTruncated(a.e[k][2], b.e[k][2])
    [] OTHER -> TRUE

RECURSIVE StringsAtDepth(_, _)
\* The strings that lie d containers deep in v.
StringsAtDepth(v, d) ==
  CASE v.t = "string" -> IF d = 0 THEN {v.s} ELSE {}
    [] v.t = "array" ->
         IF d = 0 THEN {} ELSE UNION {StringsAtDepth(v.a[k], d - 1) : k \in 1..Len(v.a)}
    [] v.t = "object" ->
         IF d = 0 THEN {} ELSE UNION {StringsAtDepth(v.e[k][2], d - 1) : k \in 1..Len(v.e)}
    [] OTHER -> {}

\* C7: a string longer than MAX_VALUE_LENGTH becomes its first
\* MAX_VALUE_LENGTH characters followed by '...', a string of at most
\* MAX_VALUE_LENGTH characters is unchanged, at every nesting depth.
C7_Theorem ==
  (pc # "start" /\ truncateValues) => StringLeavesTruncated(obj, docToFormat)

C7_Witness ==
  /\ pc = "rendered"
  /\ truncateValues
  /\ \E s \in StringsAtDepth(obj, 2) : Len(s) > MAX_VALUE_LENGTH
  /\ \E s \in StringsAtDepth(docToFormat, 2) : Len(s) = MAX_VALUE_LENGTH + 3

RECURSIVE SameShape(_, _)
\* b has the shape of a: the same kind of value at every place, sequences of
\* the same length, mappings with the same keys in the same order, and the
\* same number, boolean, null or undefined at every such leaf.
SameShape(a, b) ==
  CASE a.t = "string" -> b.t = "string"
    [] a.t = "array" ->
         /\ b.t = "array"
         /\ Len(b.a) = Len(a.a)
         /\ \A k \in 1..Len(a.a) : SameShape(a.a[k], b.a[k])
    [] a.t = "object" ->
         /\ b.t = "object"
         /\ Len(b.e) = Len(a.e)
         /\ \A k \in 1..Len(a.e) :
              b.e[k][1] = a.e[k][1] /\ SameShape(a.e[k][2], b.e[k][2])
    [] OTHER -> b = a

RECURSIVE LeafKinds(_)
LeafKinds(v) ==
  CASE v.t = "array" -> UNION {LeafKinds(v.a[k]) : k \in 1..Len(v.a)}
    [] v.t = "object" -> UNION {LeafKinds(v.e[k][2]) : k \in 1..Len(v.e)}
    [] OTHER -> {v.t}

\* C8: truncateLongValues keeps the shape of its input (sequence lengths and
\* order, mapping keys and their order, every number, boolean, null and
\* undefined leaf) and leaves the input as it was.
C8_Theorem ==
  /\ []((pc # "start" /\ truncateValues) => SameShape(obj, docToFormat))
  /\ [][obj' = obj]_vars

C8_Witness ==
  /\ pc = "rendered"
  /\ truncateValues
  /\ obj.t = "object"
  /\ Len(obj.e) = 2
  /\ {"number", "string"} \subseteq LeafKinds(obj)
  /\ obj.e[2][2].t = "array" /\ Len(obj.e[2][2].a) = 2
  /\ docToFormat # obj

(***************************************************************************)
(* Properties of formatStringValue                                         *)
(***************************************************************************)
\* The lines of a text, broken at every line feed.
splitAtLF(text) ==
  LET breaks == {k \in 1..Len(text) : text[k] = LF}
      \* the position of the j-th break; 0 and Len(text) + 1 bound the text
      at(j) == IF j = 0 THEN 0
               ELSE IF j > Cardinality(breaks) THEN Len(text) + 1
               ELSE CHOOSE k \in breaks : Cardinality({m \in breaks : m < k}) = j - 1
  IN  [j \in 1..(Cardinality(breaks) + 1) |-> SubSeq(text, at(j - 1) + 1, at(j) - 1)]

RECURSIVE unescapeTemplate(_)
\* The reverse of the escape rules: a backslash before a backslash, a
\* backtick or a dollar sign is dropped.
unescapeTemplate(s) ==
  IF s = <<>> THEN <<>>
  ELSE IF Len(s) >= 2 /\ s[1] = BACKSLASH /\ s[2] \in {BACKSLASH, BACKTICK, "$"}
       THEN <<s[2]>> \o unescapeTemplate(SubSeq(s, 3, Len(s)))
       ELSE <<s[1]>> \o unescapeTemplate(Tail(s))

\* The text between the delimiters, its continuation lines without their
\* indentation of 2 * ind + 3 spaces, unescaped.
Unformat(text, ind) ==
  LET body == SubSeq(text, 2, Len(text) - 1)
      ls == splitAtLF(body)
      bare == [k \in 1..Len(ls) |->
                 IF k = 1 THEN ls[k] ELSE SubSeq(ls[k], 2 * ind + 4, Len(ls[k]))]
  IN  unescapeTemplate(join(bare, <<LF>>))

RECURSIVE crlfToLf(_)
\* s with every pair CR LF replaced by LF
crlfToLf(s) ==
  IF s = <<>> THEN <<>>
  ELSE IF Len(s) >= 2 /\ s[1] = CR /\ s[2] = LF
       THEN <<LF>> \o crlfToLf(SubSeq(s, 3, Len(s)))
       ELSE <<s[1]>> \o crlfToLf(Tail(s))

hasCRLF(s) == \E k \in 1..(Len(s) - 1) : s[k] = CR /\ s[k + 1] = LF

Delimited(text) ==
  Len(text) >= 2 /\ text[1] = BACKTICK /\ text[Len(text)] = BACKTICK

\* C9 as stated: every multi-line string, formatted and then unescaped by
\* the reverse of the escape rules, comes back exactly.
C9_Original ==
  (pc = "stringFormatted" /\ isMultiLine(str)) =>
    (Delimited(formatted) /\ Unformat(formatted, indent) = str)

\* C9 as amended: every multi-line string, formatted and then unescaped by
\* the reverse of the escape rules, comes back with each CR LF pair replaced
\* by LF, hence exactly when it holds no CR LF pair (a lone CR, a backtick,
\* a backslash and a dollar-brace all come back).
C9_Theorem ==
  (pc = "stringFormatted" /\ isMultiLine(str)) =>
    /\ Delimited(formatted)
    /\ Unformat(formatted, indent) = crlfToLf(str)
    /\ ~hasCRLF(str) => Unformat(formatted, indent) = str

C9_Witness ==
  /\ pc = "stringFormatted"
  /\ indent > 0
  /\ includes(str, BACKTICK) /\ includes(str, BACKSLASH)
  /\ includes(str, LF) /\ includes(str, CR)
  /\ ~hasCRLF(str)

(***************************************************************************)
(* Where the values of a document lie in its text                          *)
(***************************************************************************)
lfCount(s) == Cardinality({k \in 1..Len(s) : s[k] = LF})

loneCrCount(s) ==
  Cardinality({k \in 1..Len(s) : s[k] = CR /\ ~(k < Len(s) /\ s[k + 1] = LF)})

ChildrenOf(v) ==
  CASE v.t = "array" -> v.a
    [] v.t = "object" -> [k \in 1..Len(v.e) |-> v.e[k][2]]
    [] OTHER -> <<>>

RECURSIVE Height(_, _)
RECURSIVE SumHeights(_, _, _)
\* The number of lines the text of v takes: lines of the formatter (broken
\* at LF) or, with cr, lines of the editor (broken at a lone CR too).
Height(v, cr) ==
  CASE v.t = "string" -> 1 + lfCount(v.s) + (IF cr THEN loneCrCount(v.s) ELSE 0)
    [] v.t \in {"array", "object"} ->
         IF ChildrenOf(v) = <<>> THEN 1
         ELSE 2 + SumHeights(ChildrenOf(v), Len(ChildrenOf(v)), cr)
    [] OTHER -> 1

SumHeights(vs, n, cr) ==
  IF n = 0 THEN 0 ELSE SumHeights(vs, n - 1, cr) + Height(vs[n], cr)

RECURSIVE Blocks(_, _, _, _)
\* Every value inside v with its first and last line and its nesting depth,
\* v starting on line first at depth depth.
Blocks(v, first, depth, cr) ==
  LET ch == ChildrenOf(v)
  IN  {[v |-> v, first |-> first, last |-> first + Height(v, cr) - 1, depth |-> depth]}
        \cup UNION {Blocks(ch[k], first + 1 + SumHeights(ch, k - 1, cr), depth + 1, cr)
                      : k \in 1..Len(ch)}

IsPrefix(p, s) == Len(p) <= Len(s) /\ SubSeq(s, 1, Len(p)) = p

\* The continuation lines of every multi-line string of the rendered value
\* start with n(level) spaces followed by the line's escaped text, level
\* being the indent level of the call that formats the string.
ContinuationLinesIndented(n(_)) ==
  LET textLines == splitAtLF(formattedDocument)
  IN  \A b \in Blocks(docToFormat, 1, 0, FALSE) :
        (b.v.t = "string" /\ isMultiLine(b.v.s)) =>
          LET content == splitOnNewline(escapeTemplate(b.v.s))
          IN  \A k \in 2..Len(content) :
                IsPrefix(Spaces(n(indent + b.depth)) \o content[k],
                         textLines[b.first + k - 1])

ClaimedIndent(level) == 2 * (level + 1) + 3

ActualIndent(level) == 2 * level + 3

\* C10 as stated: every continuation line of a multi-line string rendered by
\* format(value, indentLevel) starts with 2 * (indentLevel + 1) + 3 spaces.
C10_Original == pc # "start" => ContinuationLinesIndented(ClaimedIndent)

\* C10 as amended: every continuation line of a multi-line string rendered
\* by format(value, indentLevel) starts with 2 * indentLevel + 3 spaces,
\* indentLevel being the level the string itself is formatted at (one more
\* than the level of the array or object that holds it).
C10_Theorem == pc # "start" => ContinuationLinesIndented(ActualIndent)

C10_Witness ==
  /\ pc = "rendered"
  /\ indent = 1
  /\ \E b \in Blocks(docToFormat, 1, 0, FALSE) :
       b.v.t = "string" /\ b.depth = 2 /\ lfCount(b.v.s) = 2
  /\ docToFormat.t = "object"

(***************************************************************************)
(* Fold ranges of the rendered text                                        *)
(***************************************************************************)
\* The non-empty arrays and objects of the rendered value, with the editor
\* lines of their opening and closing delimiters.
ContainerBlocks ==
  {b \in Blocks(docToFormat, 1, 0, TRUE) :
     b.v.t \in {"array", "object"} /\ ChildrenOf(b.v) # <<>>}

RangeSet == {<<ranges[k].start, ranges[k].end>> : k \in 1..Len(ranges)}

\* Exactly one range per non-empty array or object, from the line of its
\* opening delimiter to the line of its closing delimiter, and no other.
OneRangePerContainer ==
  /\ RangeSet = {<<b.first, b.last>> : b \in ContainerBlocks}
  /\ Len(ranges) = Cardinality(ContainerBlocks)

\* { a: 1, b: { c: "x\ny" } }
ExampleDocument ==
  Obj(<< << <<"a">>, Num(1) >>,
         << <<"b">>, Obj(<< << <<"c">>, Str(<<"x", LF, "y">>) >> >>) >> >>)

\* No line of a multi-line string but its last ends, trimmed, with an opening
\* delimiter, and no line between its first and its last is, trimmed, a
\* closing delimiter with or without comma.
NoDelimiterLines(s) ==
  LET ls == getLinesContent(s)
  IN  \A k \in 1..(Len(ls) - 1) :
        /\ ~isOpener(trim(ls[k]))
        /\ k >= 2 => ~isCloser(trim(ls[k]))

StringsFreeOfDelimiterLines(v) ==
  \A b \in Blocks(v, 1, 0, TRUE) :
    (b.v.t = "string" /\ isMultiLine(b.v.s)) => NoDelimiterLines(b.v.s)

\* C1 as stated: for the text of any document, multi-line strings with
\* delimiter-like lines included, the provider emits exactly one range per
\* non-empty object or array, from its opening to its closing line, and no
\* other; the text of { a: 1, b: { c: "x\ny" } } gives (1,6) and (3,5).
C1_Original ==
  pc = "scanned" =>
    /\ OneRangePerContainer
    /\ (docToFormat = ExampleDocument /\ indent = 0) => RangeSet = {<<1, 6>>, <<3, 5>>}

\* C1 as amended: for the text of a document none of whose multi-line
\* strings has a line that ends with an opening delimiter or is a closing
\* delimiter, the provider emits exactly one range per non-empty object or
\* array, from its opening to its closing line, and no other; the text of
\* { a: 1, b: { c: "x\ny" } } has seven lines and gives (1,7) and (3,6).
C1_Theorem ==
  pc = "scanned" =>
    /\ StringsFreeOfDelimiterLines(docToFormat) => OneRangePerContainer
    /\ (docToFormat = ExampleDocument /\ indent = 0) => RangeSet = {<<1, 7>>, <<3, 6>>}

C1_Witness ==
  /\ pc = "scanned"
  /\ docToFormat = ExampleDocument
  /\ indent = 0
  /\ Len(ranges) = 2

(***************************************************************************)
(* Empty containers                                                        *)
(***************************************************************************)
IsEmptyContainer(v) == v.t \in {"array", "object"} /\ ChildrenOf(v) = <<>>

EmptyText(v) == IF v.t = "array" THEN <<"[", "]">> ELSE <<"{", "}">>

\* The fields of the objects of the rendered value whose value is an empty
\* array or object: the line of the editor model the field is on and the
\* text 'key: []' or 'key: {}' at the indentation of the field, with the
\* comma that follows every field but the last.
EmptyFields ==
  UNION {{[line |-> b.first + 1 + SumHeights(ChildrenOf(b.v), k - 1, TRUE),
           text |-> indentStr(indent + b.depth + 1) \o b.v.e[k][1] \o <<":", " ">>
                      \o EmptyText(b.v.e[k][2])
                      \o (IF k < Len(b.v.e) THEN <<",">> ELSE <<>>)]
            : k \in {q \in 1..Len(b.v.e) : IsEmptyContainer(b.v.e[q][2])}}
           : b \in {c \in Blocks(docToFormat, 1, 0, TRUE) : c.v.t = "object"}}

\* C11: an empty object is rendered as {} and an empty array as [] at every
\* indent level; a field whose value is an empty array or object is
\* rendered on one line as 'key: []' or 'key: {}', and no fold range starts
\* or ends on that line.
C11_Theorem ==
  /\ (pc # "start" /\ IsEmptyContainer(docToFormat)) =>
       formattedDocument = EmptyText(docToFormat)
  /\ pc = "scanned" =>
       \A f \in EmptyFields :
         /\ lines[f.line] = f.text
         /\ \A k \in 1..Len(ranges) : ranges[k].start # f.line /\ ranges[k].end # f.line

C11_Witness ==
  /\ pc = "scanned"
  /\ indent = 1
  /\ \E f, g \in EmptyFields :
       /\ SubSeq(f.text, Len(f.text) - 2, Len(f.text)) = <<"[", "]", ",">>
       /\ g.text[Len(g.text)] = "}"
  /\ ranges # <<>>

(***************************************************************************)
(* Layout of non-empty arrays and objects                                  *)
(***************************************************************************)
OpenerOf(v) == IF v.t = "array" THEN "[" ELSE "{"

CloserOf(v) == IF v.t = "array" THEN "]" ELSE "}"

\* What a child's first line starts with after the indentation: its key,
\* unquoted, a colon and a space for a field of an object.
KeyPrefix(v, k) == IF v.t = "object" THEN v.e[k][1] \o <<":", " ">> ELSE <<>>

\* The block b, a non-empty array or object formatted at level n, is laid
\* out in the lines of the text as C12 says.
LaidOut(b, n, textLines) ==
  LET ch == ChildrenOf(b.v)
      firstOf(k) == b.first + 1 + SumHeights(ch, k - 1, FALSE)
      lastOf(k) == b.first + SumHeights(ch, k, FALSE)
      \* the first line of the text of child k: its opening delimiter for a
      \* non-empty array or object
      childFirstLine(k) ==
        IF ch[k].t \in {"array", "object"} /\ ChildrenOf(ch[k]) # <<>>
        THEN <<OpenerOf(ch[k])>>
        ELSE splitAtLF(formatJsonWithUnquotedKeys(ch[k], n + 1))[1]
  IN  /\ endsWith(textLines[b.first], OpenerOf(b.v))
      /\ b.depth = 0 => textLines[b.first] = <<OpenerOf(b.v)>>
      /\ \A k \in 1..Len(ch) :
           /\ IsPrefix(Spaces(2 * (n + 1)) \o KeyPrefix(b.v, k)
                         \o childFirstLine(k),
                       textLines[firstOf(k)])
           /\ (k < Len(ch)) <=> endsWith(textLines[lastOf(k)], ",")
      /\ b.last = lastOf(Len(ch)) + 1
      /\ textLines[b.last] \in {Spaces(2 * n) \o <<CloserOf(b.v)>>,
                                Spaces(2 * n) \o <<CloserOf(b.v), ",">>}
      /\ b.depth = 0 => textLines[b.last] = Spaces(2 * n) \o <<CloserOf(b.v)>>
                          /\ b.last = Len(textLines)

\* C12: a non-empty array or object formatted at indent level n starts with
\* its opening delimiter, has each element or 'key: value' pair start on a
\* line of its own indented 2 * (n + 1) spaces, has a comma after every
\* element or pair but the last, and ends with its closing delimiter alone
\* on the last line, indented 2 * n spaces; keys are written unquoted.
C12_Theorem ==
  pc = "rendered" =>
    LET textLines == splitAtLF(formattedDocument)
    IN  \A b \in Blocks(docToFormat, 1, 0, FALSE) :
          (b.v.t \in {"array", "object"} /\ ChildrenOf(b.v) # <<>>) =>
            LaidOut(b, indent + b.depth, textLines)

C12_Witness ==
  /\ pc = "rendered"
  /\ indent = 1
  /\ docToFormat.t = "array"
  /\ Len(docToFormat.a) = 2
  /\ docToFormat.a[1].t = "object"
  /\ Len(docToFormat.a[1].e) = 2
  /\ docToFormat.a[1].e[2][2].t = "string"
  /\ isMultiLine(docToFormat.a[1].e[2][2].s)

(***************************************************************************)
(* The stack of the folding provider on a closer line                      *)
(***************************************************************************)
\* The positions of the stack that hold the open character the closer of
\* line i + 1 expects.
Candidates == {j \in 1..Len(stack) : stack[j].char = expectedOpen(trim(lines[i + 1]))}

\* stack' is stack without its entry at position j.
RemovedAt(j) ==
  /\ Len(stack') = Len(stack) - 1
  /\ \A m \in 1..(j - 1) : stack'[m] = stack[m]
  /\ \A m \in j..Len(stack') : stack'[m] = stack[m + 1]

CloserLineNext == pc = "scan" /\ i < Len(lines) /\ i' = i + 1 /\ isCloser(trim(lines[i + 1]))

\* C16: a closer line removes from the stack the entry nearest the top that
\* holds the expected open character, and nothing else: the entries above
\* and below it stay, in their order; at most one entry goes per closer line.
C16_Theorem ==
  [][CloserLineNext =>
       /\ Len(stack') >= Len(stack) - 1
       /\ Candidates = {} => stack' = stack
       /\ Candidates # {} =>
            \E j \in Candidates :
              /\ \A m \in Candidates : m <= j
              /\ RemovedAt(j)]_vars

\* A closer has just taken an entry from between two others.
C16_Witness ==
  /\ pc = "scan"
  /\ i >= 1
  /\ isCloser(trim(lines[i]))
  /\ \E k \in 1..Len(ranges) :
       /\ ranges[k].end = i
       /\ \E a, b \in 1..Len(stack) :
            /\ stack[a].line < ranges[k].start
            /\ stack[b].line > ranges[k].start
            /\ stack[b].char # stack[a].char

(***************************************************************************)
(* PreviewApp, the paginated panel.  A document of the list is represented *)
(* by a number that identifies it.  pc is "panel" when the panel is        *)
(* settled and "effects" between a render that changed totalPages or       *)
(* currentPage and the effect that depends on them.                        *)
(***************************************************************************)
ITEMS_PER_PAGE_OPTIONS == <<10, 25, 50, 100>>

SortOptions == {"default", "asc", "desc"}

ViewTypes == {"tree", "json", "table"}

\* Math.ceil(a / b) for a >= 0 and b > 0
ceilDiv(a, b) == (a + b - 1) \div b

\* totalPages = Math.max(1, Math.ceil(totalDocuments / itemsPerPage))
totalPages(docs, perPage) == Max({1, ceilDiv(Len(docs), perPage)})

\* Array.prototype.slice(start, end) for start, end >= 0
slice(a, start, end) == SubSeq(a, start + 1, Min({end, Len(a)}))

\* Mutant of displayedDocuments: the start index is that of the next page.
displayedDocumentsNextPage(docs, page, perPage) ==
  LET startIndex == page * perPage
      endIndex == startIndex + perPage
  IN  slice(docs, startIndex, endIndex)

\* displayedDocuments = documents.slice(startIndex, startIndex + itemsPerPage)
displayedDocuments(docs, page, perPage) ==
  LET startIndex == (page - 1) * perPage
      endIndex == startIndex + perPage
  IN  slice(docs, startIndex, endIndex)

startItem(docs, page, perPage) == IF Len(docs) = 0 THEN 0 ELSE (page - 1) * perPage + 1

endItem(docs, page, perPage) == Min({page * perPage, Len(docs)})

\* parseInt(value, 10) for a string of decimal digits
parseInt(digits) ==
  LET val(c) == CHOOSE d \in 0..9 : Digit(d) = c
      sum[k \in 0..Len(digits)] ==
        IF k = 0 THEN 0 ELSE sum[k - 1] * 10 + val(digits[k])
  IN  sum[Len(digits)]

\* message.documents || []
documentsOrEmpty(m) ==
  IF m.documents.t \in {"undefined", "null"} THEN <<>> ELSE m.documents.a

Event(type, data) == [type |-> type, data |-> data]

\* The state after a render: the effect of lines 95-99 is pending when one
\* of its dependencies changed.
AfterRender ==
  pc' = IF totalPages(documents', itemsPerPage') # totalPages(documents, itemsPerPage)
           \/ currentPage' # currentPage
        THEN "effects" ELSE "panel"

PanelOnly == UNCHANGED <<scanVars, sliceVars, formatVars, viewerVars>>

\* The effects of the first render: the page check, then the listener is
\* added and the initial documents are requested.
Mount ==
  /\ pc = "panel" /\ ~mounted
  /\ mounted' = TRUE
  /\ posted' = Append(posted, "GET_DOCUMENTS")
  /\ event' = Event("mount", None)
  /\ UNCHANGED <<pc, documents, sortOption, itemsPerPage, currentPage, viewType,
                 settingsMenuOpen>>
  /\ PanelOnly

\* useEffect(() => { if (currentPage > totalPages) setCurrentPage(totalPages) })
ClampPage ==
  /\ pc = "effects"
  /\ currentPage' = IF currentPage > totalPages(documents, itemsPerPage)
                    THEN totalPages(documents, itemsPerPage)
                    ELSE currentPage
  /\ pc' = "panel"
  /\ UNCHANGED <<documents, sortOption, itemsPerPage, viewType, settingsMenuOpen,
                 mounted, posted, event>>
  /\ PanelOnly

\* Mutant of handleMessage: the page is not reset.
handleMessageKeepPage(m) ==
  /\ pc = "panel" /\ mounted
  /\ IF m.command = "LOAD_DOCUMENTS"
     THEN /\ documents' = documentsOrEmpty(m)
          /\ UNCHANGED currentPage
     ELSE UNCHANGED <<documents, currentPage>>
  /\ event' = Event("message", m)
  /\ UNCHANGED <<sortOption, itemsPerPage, viewType, settingsMenuOpen, mounted, posted>>
  /\ AfterRender
  /\ PanelOnly

\* window 'message' listener
handleMessage(m) ==
  /\ pc = "panel" /\ mounted
  /\ IF m.command = "LOAD_DOCUMENTS"
     THEN /\ documents' = documentsOrEmpty(m)
          /\ currentPage' = 1
     ELSE UNCHANGED <<documents, currentPage>>
  /\ event' = Event("message", m)
  /\ UNCHANGED <<sortOption, itemsPerPage, viewType, settingsMenuOpen, mounted, posted>>
  /\ AfterRender
  /\ PanelOnly

\* Mutant of handleRefresh: the initial request is posted again.
handleRefreshAsGet ==
  /\ pc = "panel" /\ mounted
  /\ posted' = Append(posted, "GET_DOCUMENTS")
  /\ event' = Event("refresh", None)
  /\ UNCHANGED <<pc, documents, sortOption, itemsPerPage, currentPage, viewType,
                 settingsMenuOpen, mounted>>
  /\ PanelOnly

\* vscode.postMessage({ command: 'REFRESH_DOCUMENTS' })
handleRefresh ==
  /\ pc = "panel" /\ mounted
  /\ posted' = Append(posted, "REFRESH_DOCUMENTS")
  /\ event' = Event("refresh", None)
  /\ UNCHANGED <<pc, documents, sortOption, itemsPerPage, currentPage, viewType,
                 settingsMenuOpen, mounted>>
  /\ PanelOnly

\* A click on 'Previous page'; the button is disabled on page 1.
handlePrevPage ==
  /\ pc = "panel" /\ mounted
  /\ currentPage' = IF ~(currentPage <= 1) /\ currentPage > 1
                    THEN currentPage - 1
                    ELSE currentPage
  /\ event' = Event("prevPage", None)
  /\ UNCHANGED <<documents, sortOption, itemsPerPage, viewType, settingsMenuOpen,
                 mounted, posted>>
  /\ AfterRender
  /\ PanelOnly

\* Mutant of handleNextPage: the page is not compared with totalPages.
handleNextPageUnguarded ==
  /\ pc = "panel" /\ mounted
  /\ currentPage' = currentPage + 1
  /\ event' = Event("nextPage", None)
  /\ UNCHANGED <<documents, sortOption, itemsPerPage, viewType, settingsMenuOpen,
                 mounted, posted>>
  /\ AfterRender
  /\ PanelOnly

\* A click on 'Next page'; the button is disabled on the last page.
handleNextPage ==
  /\ pc = "panel" /\ mounted
  /\ currentPage' = IF ~(currentPage >= totalPages(documents, itemsPerPage))
                       /\ currentPage < totalPages(documents, itemsPerPage)
                    THEN currentPage + 1
                    ELSE currentPage
  /\ event' = Event("nextPage", None)
  /\ UNCHANGED <<documents, sortOption, itemsPerPage, viewType, settingsMenuOpen,
                 mounted, posted>>
  /\ AfterRender
  /\ PanelOnly

handleSortChange(value) ==
  /\ pc = "panel" /\ mounted
  /\ sortOption' = value
  /\ event' = Event("sort", value)
  /\ UNCHANGED <<documents, itemsPerPage, currentPage, viewType, settingsMenuOpen,
                 mounted, posted>>
  /\ AfterRender
  /\ PanelOnly

\* value is the text of one of the options
handleItemsPerPageChange(value) ==
  /\ pc = "panel" /\ mounted
  /\ LET newItemsPerPage == parseInt(value)
     IN  itemsPerPage' = newItemsPerPage
  /\ currentPage' = 1
  /\ event' = Event("itemsPerPage", value)
  /\ UNCHANGED <<documents, sortOption, viewType, settingsMenuOpen, mounted, posted>>
  /\ AfterRender
  /\ PanelOnly

handleViewTypeChange(value) ==
  /\ pc = "panel" /\ mounted
  /\ viewType' = value
  /\ event' = Event("viewType", value)
  /\ UNCHANGED <<documents, sortOption, itemsPerPage, currentPage, settingsMenuOpen,
                 mounted, posted>>
  /\ AfterRender
  /\ PanelOnly

toggleSettingsMenu ==
  /\ pc = "panel" /\ mounted
  /\ settingsMenuOpen' = ~settingsMenuOpen
  /\ event' = Event("settings", None)
  /\ UNCHANGED <<documents, sortOption, itemsPerPage, currentPage, viewType,
                 mounted, posted>>
  /\ AfterRender
  /\ PanelOnly

MaxDocs == 21
MaxPosted == 3

\* The lists of n documents, in two orders.
DocLists ==
  UNION {{[k \in 1..n |-> k], [k \in 1..n |-> n + 1 - k]} : n \in 0..MaxDocs}

Messages ==
  [command : {"LOAD_DOCUMENTS"}, documents : {Arr(l) : l \in DocLists} \cup {Undefined, Null}]
    \cup [command : {"REFRESH_DOCUMENTS", "load_documents", "undefined"},
          documents : {Undefined, Arr(<<1>>)}]

InitPanel ==
  /\ pc = "panel"
  /\ documents = <<>>
  /\ sortOption = "default"
  /\ itemsPerPage = 25
  /\ currentPage = 1
  /\ viewType = "tree"
  /\ settingsMenuOpen = FALSE
  /\ mounted = FALSE
  /\ posted = <<>>
  /\ event = Event("none", None)
  /\ ViewerIdle
  /\ truncateValues = TRUE
  /\ docToFormat = None /\ formattedDocument = None
  /\ lines = <<>> /\ i = 0 /\ stack = <<>> /\ ranges = <<>>
  /\ obj = None /\ maxFields = 0 /\ sliced = None
  /\ indent = 0 /\ str = None /\ formatted = None

NextPanel ==
  \/ Mount
  \/ ClampPage
  \/ \E m \in Messages : handleMessage(m)
  \/ (Len(posted) < MaxPosted /\ handleRefresh)
  \/ handlePrevPage
  \/ handleNextPage
  \/ \E value \in SortOptions : handleSortChange(value)
  \/ \E k \in 1..Len(ITEMS_PER_PAGE_OPTIONS) :
       handleItemsPerPageChange(natToString(ITEMS_PER_PAGE_OPTIONS[k]))
  \/ \E value \in ViewTypes : handleViewTypeChange(value)
  \/ toggleSettingsMenu

SpecPanel == InitPanel /\ [][NextPanel]_vars

(***************************************************************************)
(* Properties of PreviewApp                                                *)
(***************************************************************************)
\* The document list a message carries: the empty list when it carries none.
ListOf(m) == IF m.documents.t = "array" THEN m.documents.a ELSE <<>>

\* The step is the handling of an event of the given type.
Handled(type) == pc = "panel" /\ mounted /\ event'.type = type

\* C13: after a LOAD_DOCUMENTS message, whatever the page and the items per
\* page were, the panel holds the message's document list (the empty list
\* when it carries none) and is on page 1; a message with another command
\* changes neither the documents nor the page.
C13_Theorem ==
  /\ [][Handled("message") =>
          IF event'.data.command = "LOAD_DOCUMENTS"
          THEN documents' = ListOf(event'.data) /\ currentPage' = 1
          ELSE documents' = documents /\ currentPage' = currentPage]_vars
  /\ []((event.type = "message" /\ event.data.command = "LOAD_DOCUMENTS") =>
          (documents = ListOf(event.data) /\ currentPage = 1))

C13_Witness ==
  /\ event.type = "message"
  /\ event.data.command = "LOAD_DOCUMENTS"
  /\ event.data.documents = Null
  /\ documents = <<>>
  /\ currentPage = 1
  /\ itemsPerPage = 10
  /\ pc = "effects"

PostingEvents == {"mount", "refresh"}

\* C14: the panel posts GET_DOCUMENTS once, on mount and before any other
\* message, and REFRESH_DOCUMENTS once per refresh action; it posts no other
\* command, and page navigation, items-per-page, sort, view-type and
\* settings actions (and incoming messages) post nothing.
C14_Theorem ==
  /\ [](IF mounted
        THEN /\ posted # <<>>
             /\ posted[1] = "GET_DOCUMENTS"
             /\ \A k \in 2..Len(posted) : posted[k] = "REFRESH_DOCUMENTS"
        ELSE posted = <<>>)
  /\ [][(~mounted /\ mounted') => posted' = <<"GET_DOCUMENTS">>]_vars
  /\ [][Handled("refresh") => posted' = Append(posted, "REFRESH_DOCUMENTS")]_vars
  /\ [][(mounted /\ ~(pc = "panel" /\ event'.type \in PostingEvents)) =>
          posted' = posted]_vars

C14_Witness ==
  /\ posted = <<"GET_DOCUMENTS", "REFRESH_DOCUMENTS">>
  /\ event.type = "nextPage"
  /\ currentPage = 2
  /\ sortOption = "asc"

\* max(1, ceil(number of documents / itemsPerPage)): the least number of
\* pages of itemsPerPage documents that hold them all, and at least one.
PagesNeeded ==
  CHOOSE p \in 1..(Len(documents) + 1) :
    /\ p * itemsPerPage >= Len(documents)
    /\ p > 1 => (p - 1) * itemsPerPage < Len(documents)

\* C19: once pending effects have run, 1 <= currentPage <= totalPages with
\* totalPages = max(1, ceil(documents / itemsPerPage)); previous-page on
\* page 1 and next-page on the last page leave the page as it is, and an
\* items-per-page change sets the page to 1.
C19_Theorem ==
  /\ [](pc = "panel" => (1 <= currentPage /\ currentPage <= PagesNeeded))
  /\ [][(Handled("prevPage") /\ currentPage = 1) => currentPage' = 1]_vars
  /\ [][(Handled("nextPage") /\ currentPage = PagesNeeded) =>
          currentPage' = currentPage]_vars
  /\ [][Handled("itemsPerPage") => currentPage' = 1]_vars
  /\ []((event.type = "itemsPerPage" /\ pc = "panel") => currentPage = 1)

C19_Witness ==
  /\ pc = "panel"
  /\ event.type = "nextPage"
  /\ Len(documents) = 2 * itemsPerPage + 1
  /\ currentPage = 3

\* What the panel shows: the documents of the page and 'startItem-endItem of total'.
Displayed == displayedDocuments(documents, currentPage, itemsPerPage)

ShownStart == startItem(documents, currentPage, itemsPerPage)

ShownEnd == endItem(documents, currentPage, itemsPerPage)

\* The loaded documents at positions lo..hi, in loaded order.
Loaded(lo, hi) == [k \in 1..(hi - lo + 1) |-> documents[lo + k - 1]]

\* C20: in every settled state the displayed documents are the loaded ones
\* at positions (currentPage-1)*itemsPerPage+1 .. min(currentPage*itemsPerPage,
\* total), in loaded order: at most itemsPerPage of them, none only when no
\* document is loaded; endItem - startItem + 1 is their number when total > 0
\* and the panel reads 0-0 of 0 when total = 0; a change of the sort option
\* or the view type changes neither the displayed documents nor the page.
C20_Theorem ==
  /\ [](pc = "panel" =>
          LET total == Len(documents)
              lo == (currentPage - 1) * itemsPerPage + 1
              hi == IF currentPage * itemsPerPage < total
                    THEN currentPage * itemsPerPage ELSE total
          IN  /\ Displayed = Loaded(lo, hi)
              /\ Len(Displayed) <= itemsPerPage
              /\ (Displayed = <<>>) <=> (total = 0)
              /\ total > 0 => ShownEnd - ShownStart + 1 = Len(Displayed)
              /\ total = 0 => (ShownStart = 0 /\ ShownEnd = 0))
  /\ [][(Handled("sort") \/ Handled("viewType")) =>
          /\ displayedDocuments(documents', currentPage', itemsPerPage') = Displayed
          /\ currentPage' = currentPage
          /\ pc' = "panel"]_vars

C20_Witness ==
  /\ pc = "panel"
  /\ event.type = "sort"
  /\ sortOption = "desc"
  /\ itemsPerPage = 10
  /\ currentPage = 2
  /\ Len(documents) = 11
  /\ Displayed = <<1>>

(***************************************************************************)
(* MonacoViewer, the document viewer.  pc is "viewer".  The memoized       *)
(* values are recomputed by the render that follows a state change; the    *)
(* callbacks given to setTimeout run later, each with the monaco of the    *)
(* render that created it.                                                 *)
(***************************************************************************)
\* Line height in pixels for Monaco editor
LINE_HEIGHT == 19
\* Padding top and bottom for the editor
EDITOR_PADDING == 0
\* Maximum number of top-level fields to show initially
MAX_INITIAL_FIELDS == 25

\* A height limit: none (Infinity) or n pixels.
Infinity == [inf |-> TRUE, n |-> 0]
Finite(n) == [inf |-> FALSE, n |-> n]

\* Maximum height for the editor
MAX_EDITOR_HEIGHT == Infinity

\* Math.min(a, limit)
mathMin(a, limit) == IF limit.inf THEN a ELSE Min({a, limit.n})

totalFieldCount(doc) == Len(doc.e)

\* Mutant of hasMoreFields: the test is >=.
hasMoreFieldsAtCap(doc) == totalFieldCount(doc) >= MAX_INITIAL_FIELDS

hasMoreFields(doc) == totalFieldCount(doc) > MAX_INITIAL_FIELDS

hiddenFieldCount(doc) == totalFieldCount(doc) - MAX_INITIAL_FIELDS

\* displayDocument = useMemo(...)
displayDocumentOf(doc, showAll) ==
  IF ~hasMoreFields(doc) \/ showAll
  THEN doc
  ELSE sliceDocumentFields(doc, MAX_INITIAL_FIELDS).doc

\* docToFormat of formattedDocument = useMemo(...)
docToFormatOf(display, truncate) ==
  IF truncate THEN truncateLongValues(display) ELSE display

\* Mutant of editorHeightOf: the height is limited to 400 pixels.
editorHeightClamped(text) ==
  LET lineCount == Len(splitAtLF(text))
      contentHeight == lineCount * LINE_HEIGHT + EDITOR_PADDING * 2
  IN  mathMin(contentHeight, Finite(400))

\* editorHeight = useMemo(...)
editorHeightOf(text) ==
  LET lineCount == Len(splitAtLF(text))
      contentHeight == lineCount * LINE_HEIGHT + EDITOR_PADDING * 2
  IN  mathMin(contentHeight, MAX_EDITOR_HEIGHT)

\* jsonValue = useMemo(() => formattedDocument)
jsonValueOf(text) == text

\* The 'Show N more fields' and 'Show less' buttons are rendered.
showMoreOffered == hasMoreFields(document) /\ ~showAllFields

showLessOffered == hasMoreFields(document) /\ showAllFields

ViewerOnly == UNCHANGED <<i, stack, ranges, sliceVars, str, indent, formatted, panelVars, event>>

\* The render after setShowAllFields(showAll): the memoized values, the
\* editor's model when the editor is mounted, and the effect on jsonValue,
\* which defers hidePrologueLine.  Whether the editor keeps its hidden areas
\* when its value changes is not decided by this code.
Rerender(showAll) ==
  /\ showAllFields' = showAll
  /\ displayDocument' = displayDocumentOf(document, showAll)
  /\ docToFormat' = docToFormatOf(displayDocument', truncateValues)
  /\ formattedDocument' = formatJsonWithUnquotedKeys(docToFormat', 0)
  /\ editorHeight' = editorHeightOf(formattedDocument')
  /\ jsonValue' = jsonValueOf(formattedDocument')
  /\ lines' = IF editorRef THEN getLinesContent(jsonValue') ELSE lines
  /\ IF jsonValue' # jsonValue
     THEN /\ timers' = Append(timers, monaco)
          /\ hiddenAreas' \in {hiddenAreas, {}}
     ELSE UNCHANGED <<timers, hiddenAreas>>
  /\ UNCHANGED <<pc, document, truncateValues, monaco, editorRef>>
  /\ ViewerOnly

\* useMonaco() delivers the loaded monaco: hidePrologueLine is a new
\* callback, so the effect on [jsonValue, hidePrologueLine] defers it.
MonacoLoaded ==
  /\ pc = "viewer" /\ ~monaco
  /\ monaco' = TRUE
  /\ timers' = Append(timers, TRUE)
  /\ UNCHANGED <<pc, document, truncateValues, showAllFields, displayDocument, docToFormat,
                 formattedDocument, editorHeight, jsonValue, editorRef, hiddenAreas, lines>>
  /\ ViewerOnly

\* onMount of the editor: the editor shows jsonValue, and hidePrologueLine
\* is deferred.
handleEditorMount ==
  /\ pc = "viewer" /\ ~editorRef
  /\ editorRef' = TRUE
  /\ lines' = getLinesContent(jsonValue)
  /\ timers' = Append(timers, monaco)
  /\ UNCHANGED <<pc, document, truncateValues, showAllFields, displayDocument, docToFormat,
                 formattedDocument, editorHeight, jsonValue, monaco, hiddenAreas>>
  /\ ViewerOnly

\* A deferred hidePrologueLine runs: it returns at once without monaco or
\* without the editor, and hides new monaco.Range(1, 1, 1, 1) otherwise.
hidePrologueLine ==
  /\ pc = "viewer" /\ timers # <<>>
  /\ timers' = Tail(timers)
  /\ hiddenAreas' = IF ~Head(timers) \/ ~editorRef THEN hiddenAreas ELSE {1}
  /\ UNCHANGED <<pc, document, truncateValues, showAllFields, displayDocument, docToFormat,
                 formattedDocument, editorHeight, jsonValue, monaco, editorRef, lines>>
  /\ ViewerOnly

MaxTimers == 3
MaxTopFields == 27

\* onClick of 'Show N more fields'
ShowMore == pc = "viewer" /\ showMoreOffered /\ Len(timers) < MaxTimers /\ Rerender(TRUE)

\* onClick of 'Show less'
ShowLess == pc = "viewer" /\ showLessOffered /\ Len(timers) < MaxTimers /\ Rerender(FALSE)

FieldKey(k) == <<"f">> \o natToString(k)

\* Documents of 0..MaxTopFields fields f1, f2, ...: field fk holds the
\* number k, but the first field holds first and the last field holds last.
ViewerDocument(n, first, last) ==
  Obj([k \in 1..n |->
         <<FieldKey(k), IF k = 1 THEN first ELSE IF k = n THEN last ELSE Num(k)>>])

ViewerDocuments ==
  {ViewerDocument(n, first, last) :
     n \in 0..MaxTopFields,
     first \in {Num(1), Str(<<"x", LF, "y">>), Str(<<"a", CR, "b">>),
                Str(LongString(MAX_VALUE_LENGTH + 1)), Arr(<<Num(1)>>), Obj(<<>>)},
     last \in {Num(0), Str(<<"x", LF, "y">>)}}

\* The state after the first render and its effects.
InitViewer ==
  /\ pc = "viewer"
  /\ document \in ViewerDocuments
  /\ truncateValues \in BOOLEAN
  /\ showAllFields = FALSE
  /\ displayDocument = displayDocumentOf(document, showAllFields)
  /\ docToFormat = docToFormatOf(displayDocument, truncateValues)
  /\ formattedDocument = formatJsonWithUnquotedKeys(docToFormat, 0)
  /\ editorHeight = editorHeightOf(formattedDocument)
  /\ jsonValue = jsonValueOf(formattedDocument)
  /\ monaco \in BOOLEAN
  /\ editorRef = FALSE
  /\ hiddenAreas = {}
  /\ timers = <<monaco>>
  /\ lines = <<>> /\ i = 0 /\ stack = <<>> /\ ranges = <<>>
  /\ obj = None /\ maxFields = 0 /\ sliced = None
  /\ indent = 0 /\ str = None /\ formatted = None
  /\ PanelIdle

NextViewer ==
  \/ MonacoLoaded
  \/ handleEditorMount
  \/ hidePrologueLine
  \/ ShowMore
  \/ ShowLess

SpecViewer == InitViewer /\ [][NextViewer]_vars

ExpectedFieldCount ==
  IF ~showAllFields /\ totalFieldCount(document) > 25
  THEN 25
  ELSE totalFieldCount(document)

\* The top-level fields found in the rendered text: field k is rendered when
\* a line starts with two spaces, its key, a colon and a space.
RenderedFields ==
  LET textLines == splitAtLF(formattedDocument)
  IN  {k \in 1..totalFieldCount(document) :
         \E n \in 1..Len(textLines) :
           IsPrefix(Spaces(2) \o document.e[k][1] \o <<":", " ">>, textLines[n])}

\* C17: with T top-level fields, while 'show all' is off and T > 25 the first
\* 25 fields are rendered and 'Show N more fields' is offered with
\* N = T - 25 >= 1; while 'show all' is on or T <= 25 all T fields are
\* rendered; 'Show less' is offered only when T > 25 and 'show all' is on;
\* the rendered text is a function of the document and the toggle (and the
\* truncateValues prop), whatever clicks came before.
C17_Theorem ==
  pc = "viewer" =>
    LET T == totalFieldCount(document)
    IN  /\ RenderedFields = 1..ExpectedFieldCount
        /\ displayDocument.e = SubSeq(document.e, 1, ExpectedFieldCount)
        /\ showMoreOffered <=> (~showAllFields /\ T > 25)
        /\ showMoreOffered => (hiddenFieldCount(document) = T - 25 /\ T - 25 >= 1)
        /\ showLessOffered <=> (T > 25 /\ showAllFields)
        /\ formattedDocument =
             formatJsonWithUnquotedKeys(
               docToFormatOf(Obj(SubSeq(document.e, 1, ExpectedFieldCount)), truncateValues),
               0)
        /\ jsonValue = formattedDocument

\* Show more and then Show less were clicked on a document of 27 fields.
C17_Witness ==
  /\ pc = "viewer"
  /\ totalFieldCount(document) = 27
  /\ ~showAllFields
  /\ ~monaco /\ ~editorRef
  /\ Len(timers) = 3

\* The lines of the editor's text that come before the formatted document.
PrologueLines ==
  1..(Len(getLinesContent(jsonValue)) - Len(getLinesContent(formattedDocument)))

\* C18: the line the viewer hides is a synthetic prologue line, never a line
\* of the formatted document: every line the formatter produced, the root's
\* opening '{' line included, stays visible, and the editor height counts
\* only the lines shown.
C18_Claim ==
  pc = "viewer" =>
    /\ hiddenAreas \subseteq PrologueLines
    /\ editorHeight =
         (Len(splitAtLF(jsonValue)) - Cardinality(hiddenAreas)) * LINE_HEIGHT
           + EDITOR_PADDING * 2

====
